---- MODULE Spec2Model ----
(***************************************************************************)
(* A model of the grounded crate: the interrupt handoff pair               *)
(* irq_sharing::{Global, Interrupt} and the uninitialized array cell       *)
(* uninit::GroundedArrayCell.                                              *)
(*                                                                         *)
(* Handoff family: one Global<T>, a main context that calls Global::load   *)
(* and two interrupt handlers, each with its own Interrupt<T> cell, that   *)
(* call Interrupt::get_or_init_with.  A handler preempts whatever is       *)
(* running unless a critical section is held; it runs to completion        *)
(* before the preempted context resumes.  critical_section::with and       *)
(* RefCell::replace are taken apart into their steps (acquire, borrow_mut, *)
(* read, write, drop of the borrow, release), so that atomicity is a       *)
(* property of the model and not an assumption.                            *)
(*                                                                         *)
(* A value of T is a pair (id, data): id is the identity of the moved      *)
(* object (Rust moves are affine, so the identity is well defined), data   *)
(* is its observable content.                                              *)
(***************************************************************************)
EXTENDS Integers, Sequences, FiniteSets, TLC

\* ---------------------------------------------------------------- bounds
\* Number of Global::load calls the main context makes.
MaxLoads == 3
\* Largest content a claimed value is incremented to.
MaxData == 3
\* Largest content passed to Global::load.
MaxInit == 1

\* ---------------------------------------------------------------- values
\* Option<T>: None, or Some of a value (id, data).
None == [some |-> FALSE, id |-> 0, data |-> 0]

Some(id, data) == [some |-> TRUE, id |-> id, data |-> data]

Main == 0

\* The interrupt handlers, each owning one Interrupt cell; a higher number
\* is a higher priority.
Cells == {1, 2}

Ctx == {Main} \cup Cells

VARIABLES
    global_inner,     \* Global.inner: the Option<T> inside Mutex<RefCell<..>>
    borrow,           \* the RefCell's borrow flag (TRUE: mutably borrowed)
    interrupt_inner,  \* Interrupt.inner of each cell
    cs,               \* TRUE while a critical section is held (interrupts masked)
    stack,            \* the contexts in execution, the running one last
    pc,               \* each context's position
    arg,              \* Global::load's parameter `value`
    old,              \* each context's result of RefCell::replace's read
    load_ret,         \* the last completed load: the id it stored, what it returned
    claim_ret,        \* what the reference returned by get_or_init_with read
    path,             \* how each handler's last get_or_init_with returned
    incs,             \* number of increments made through each cell's reference
    fatal,            \* the panic that ended the program, if any
    hist,             \* the replace calls on the slot in the order they took effect:
                      \* who called, the value passed to load, the contents found
    loads,            \* number of load calls made
    invoked,          \* the cells whose handler has run
    early,            \* TRUE when a handler ran before any load had returned
    load_data         \* the content of the values the main context loads

\* GroundedArrayCell<T, N> and the operation running on it.
VARIABLES
    N,                \* the const generic N: the number of elements
    size,             \* size_of::<T>()
    mem,              \* the memory around and of the cell, address by address
    apc,              \* position of the running array operation
    aop,              \* the operation called last
    aval,             \* initialize_all_copied's parameter `val`
    ptr,              \* the loop's `ptr`
    end_ptr,          \* the loop's `end`
    f_calls,          \* number of calls made to the producer `f`
    wlog,             \* the addresses ptr.write was called on, in order
    prior,            \* what the cell held when the operation was called
    ref,              \* the pointer, reference or slice returned last
    gcell,            \* the contents of a GroundedCell<T>
    shadow,           \* what was written last to each element, by index
    last_w,           \* through what the array was written last
    static,           \* the static the program uses: "cell" or "array"
    first_base,       \* the first pointer as_mut_ptr / get_ptr_len returned
    first_get         \* the first pointer GroundedCell::get returned

loopvars == <<apc, aop, aval, ptr, end_ptr, f_calls, wlog, prior>>

avars == <<N, size, mem, loopvars, ref, gcell, shadow, last_w, static, first_base, first_get>>

hvars == <<global_inner, borrow, interrupt_inner, cs, stack, pc, arg, old,
           load_ret, claim_ret, path, incs, fatal, hist, loads, invoked, early,
           load_data>>

vars == <<hvars, avars>>

NoPanic == [ctx |-> -1, why |-> "none"]

\* Global::empty() and Interrupt::empty(), nothing called yet.
HandoffInit ==
    /\ global_inner = None
    /\ borrow = FALSE
    /\ interrupt_inner = [c \in Cells |-> None]
    /\ cs = FALSE
    /\ stack = <<Main>>
    /\ pc = [c \in Ctx |-> "idle"]
    /\ arg = None
    /\ old = [c \in Ctx |-> None]
    /\ load_ret = [id |-> 0, ret |-> None]
    /\ claim_ret = [c \in Cells |-> None]
    /\ path = [c \in Cells |-> "none"]
    /\ incs = [c \in Cells |-> 0]
    /\ fatal = NoPanic
    /\ hist = <<>>
    /\ loads = 0
    /\ invoked = {}
    /\ early = FALSE
    /\ load_data \in 0..MaxInit

Top == stack[Len(stack)]

\* The context c is the one executing, and the program has not panicked.
Running(c) == fatal = NoPanic /\ Top = c

\* ------------------------------------------------------- critical section
\* Mutant: the critical section does not mask interrupts.
AcquireCS_nomask == FALSE

\* critical_section::acquire: interrupts are masked until the release.
AcquireCS == TRUE

\* Mutant: the critical section is left without enabling interrupts.
ReleaseCS_held == cs

\* critical_section::release: interrupts are enabled again.
ReleaseCS == FALSE

\* Mutant: the closure runs on every call (Option::insert for get_or_insert_with).
NeedsInit_always(h) == TRUE

\* Interrupt.inner.get_or_insert_with runs its closure only for a None.
NeedsInit(h) == ~interrupt_inner[h].some

\* Mutant: get_or_init_with reads the slot without emptying it.
NewValue_keep(c) == IF c = Main THEN arg ELSE global_inner

\* What RefCell::replace writes: Some(value) in load, None in get_or_init_with.
NewValue(c) == IF c = Main THEN arg ELSE None

\* Mutant: replace returns what it has just stored.
ReplaceResult_new(c) == NewValue(c)

\* What RefCell::replace returns: the contents it found.
ReplaceResult(c) == global_inner

\* Mutant: an empty Option is passed on instead of panicking.
UnwrapPanics_never(h) == FALSE

\* Option::unwrap panics on None.
UnwrapPanics(h) == ~old[h].some

\* ---------------------------------------------------------------- actions
\* main: GLOBAL.load(value) is called with a fresh value.
LoadCall ==
    /\ Running(Main)
    /\ pc[Main] = "idle"
    /\ loads < MaxLoads
    /\ loads' = loads + 1
    /\ arg' = Some(loads + 1, load_data)
    /\ pc' = [pc EXCEPT ![Main] = "acquire"]
    /\ UNCHANGED <<global_inner, borrow, interrupt_inner, cs, stack, old,
                   load_ret, claim_ret, path, incs, fatal, hist, invoked, early, load_data, avars>>

\* An interrupt fires: handler h preempts the running context.  Not while a
\* critical section is held, not while h is already active, and only over a
\* context of lower priority.
Preempt(h) ==
    /\ fatal = NoPanic
    /\ ~cs
    /\ \A i \in 1..Len(stack) : stack[i] < h
    /\ stack' = Append(stack, h)
    /\ pc' = [pc EXCEPT ![h] = "call"]
    /\ path' = [path EXCEPT ![h] = "none"]
    /\ invoked' = invoked \cup {h}
    /\ early' = (early \/ load_ret.id = 0)
    /\ UNCHANGED <<global_inner, borrow, interrupt_inner, cs, arg, old,
                   load_ret, claim_ret, incs, fatal, hist, loads, load_data, avars>>

\* self.inner.get_or_insert_with(..): a cell that holds a value returns the
\* reference at once; an empty one runs the closure.
GetOrInsertWith(h) ==
    /\ Running(h)
    /\ pc[h] = "call"
    /\ IF NeedsInit(h)
         THEN /\ pc' = [pc EXCEPT ![h] = "acquire"]
              /\ UNCHANGED <<claim_ret, path>>
         ELSE /\ pc' = [pc EXCEPT ![h] = "body"]
              /\ claim_ret' = [claim_ret EXCEPT ![h] = interrupt_inner[h]]
              /\ path' = [path EXCEPT ![h] = "owned"]
    /\ UNCHANGED <<global_inner, borrow, interrupt_inner, cs, stack, arg, old,
                   load_ret, incs, fatal, hist, loads, invoked, early, load_data, avars>>

\* critical_section::with(|cs| ..): entry.
Acquire(c) ==
    /\ Running(c)
    /\ pc[c] = "acquire"
    /\ cs' = AcquireCS
    /\ pc' = [pc EXCEPT ![c] = "borrow"]
    /\ UNCHANGED <<global_inner, borrow, interrupt_inner, stack, arg, old,
                   load_ret, claim_ret, path, incs, fatal, hist, loads, invoked, early, load_data, avars>>

\* RefCell::replace: borrow_mut, which panics on a RefCell already borrowed.
BorrowMut(c) ==
    /\ Running(c)
    /\ pc[c] = "borrow"
    /\ IF borrow
         THEN /\ fatal' = [ctx |-> c, why |-> "borrow"]
              /\ pc' = [pc EXCEPT ![c] = "panicked"]
              /\ UNCHANGED borrow
         ELSE /\ borrow' = TRUE
              /\ pc' = [pc EXCEPT ![c] = "read"]
              /\ UNCHANGED fatal
    /\ UNCHANGED <<global_inner, interrupt_inner, cs, stack, arg, old,
                   load_ret, claim_ret, path, incs, hist, loads, invoked, early, load_data, avars>>

\* RefCell::replace: mem::replace reads the old contents ..
ReplaceRead(c) ==
    /\ Running(c)
    /\ pc[c] = "read"
    /\ old' = [old EXCEPT ![c] = ReplaceResult(c)]
    /\ pc' = [pc EXCEPT ![c] = "write"]
    /\ UNCHANGED <<global_inner, borrow, interrupt_inner, cs, stack, arg,
                   load_ret, claim_ret, path, incs, fatal, hist, loads, invoked, early, load_data, avars>>

\* .. and writes the new ones.
ReplaceWrite(c) ==
    /\ Running(c)
    /\ pc[c] = "write"
    /\ global_inner' = NewValue(c)
    /\ hist' = Append(hist, [op  |-> IF c = Main THEN "load" ELSE "take",
                             ctx |-> c,
                             val |-> IF c = Main THEN arg ELSE None,
                             old |-> old[c]])
    /\ pc' = [pc EXCEPT ![c] = "unborrow"]
    /\ UNCHANGED <<borrow, interrupt_inner, cs, stack, arg, old,
                   load_ret, claim_ret, path, incs, fatal, loads, invoked, early, load_data, avars>>

\* RefCell::replace: the RefMut is dropped.
DropBorrow(c) ==
    /\ Running(c)
    /\ pc[c] = "unborrow"
    /\ borrow' = FALSE
    /\ pc' = [pc EXCEPT ![c] = IF c = Main THEN "release" ELSE "unwrap"]
    /\ UNCHANGED <<global_inner, interrupt_inner, cs, stack, arg, old,
                   load_ret, claim_ret, path, incs, fatal, hist, loads, invoked, early, load_data, avars>>

\* get_or_init_with: .unwrap() of the taken Option, still inside the closure
\* given to critical_section::with.  A panic that unwinds releases the
\* critical section; one that aborts leaves it as it is.
Unwrap(h) ==
    /\ Running(h)
    /\ h \in Cells
    /\ pc[h] = "unwrap"
    /\ IF UnwrapPanics(h)
         THEN /\ fatal' = [ctx |-> h, why |-> "unwrap"]
              /\ pc' = [pc EXCEPT ![h] = "panicked"]
              /\ cs' \in {cs, FALSE}
         ELSE /\ pc' = [pc EXCEPT ![h] = "release"]
              /\ UNCHANGED <<fatal, cs>>
    /\ UNCHANGED <<global_inner, borrow, interrupt_inner, stack, arg, old,
                   load_ret, claim_ret, path, incs, hist, loads, invoked, early, load_data, avars>>

\* critical_section::with: exit, interrupts are enabled again.
Release(c) ==
    /\ Running(c)
    /\ pc[c] = "release"
    /\ cs' = ReleaseCS
    /\ pc' = [pc EXCEPT ![c] = IF c = Main THEN "ret" ELSE "insert"]
    /\ UNCHANGED <<global_inner, borrow, interrupt_inner, stack, arg, old,
                   load_ret, claim_ret, path, incs, fatal, hist, loads, invoked, early, load_data, avars>>

\* Global::load returns the old contents.
LoadReturn ==
    /\ Running(Main)
    /\ pc[Main] = "ret"
    /\ load_ret' = [id |-> arg.id, ret |-> old[Main]]
    /\ pc' = [pc EXCEPT ![Main] = "idle"]
    /\ UNCHANGED <<global_inner, borrow, interrupt_inner, cs, stack, arg, old,
                   claim_ret, path, incs, fatal, hist, loads, invoked, early, load_data, avars>>

\* get_or_insert_with stores the closure's value in self.inner and
\* get_or_init_with returns the reference to it.
Insert(h) ==
    /\ Running(h)
    /\ h \in Cells
    /\ pc[h] = "insert"
    /\ interrupt_inner' = [interrupt_inner EXCEPT ![h] = old[h]]
    /\ claim_ret' = [claim_ret EXCEPT ![h] = interrupt_inner'[h]]
    /\ path' = [path EXCEPT ![h] = "init"]
    /\ pc' = [pc EXCEPT ![h] = "body"]
    /\ UNCHANGED <<global_inner, borrow, cs, stack, arg, old,
                   load_ret, incs, fatal, hist, loads, invoked, early, load_data, avars>>

\* The handler mutates the claimed value through the returned &mut T.
Increment(h) ==
    /\ Running(h)
    /\ h \in Cells
    /\ pc[h] = "body"
    /\ interrupt_inner[h].data < MaxData
    /\ interrupt_inner' = [interrupt_inner EXCEPT ![h].data = @ + 1]
    /\ incs' = [incs EXCEPT ![h] = @ + 1]
    /\ UNCHANGED <<global_inner, borrow, cs, stack, pc, arg, old,
                   load_ret, claim_ret, path, fatal, hist, loads, invoked, early, load_data, avars>>

\* The handler returns; the preempted context resumes.
HandlerExit(h) ==
    /\ Running(h)
    /\ h \in Cells
    /\ pc[h] = "body"
    /\ pc' = [pc EXCEPT ![h] = "idle"]
    /\ stack' = SubSeq(stack, 1, Len(stack) - 1)
    /\ UNCHANGED <<global_inner, borrow, interrupt_inner, cs, arg, old,
                   load_ret, claim_ret, path, incs, fatal, hist, loads, invoked, early, load_data, avars>>

HandoffNext ==
    \/ LoadCall
    \/ LoadReturn
    \/ \E h \in Cells : Preempt(h)
    \/ \E h \in Cells : GetOrInsertWith(h)
    \/ \E c \in Ctx : Acquire(c)
    \/ \E c \in Ctx : BorrowMut(c)
    \/ \E c \in Ctx : ReplaceRead(c)
    \/ \E c \in Ctx : ReplaceWrite(c)
    \/ \E c \in Ctx : DropBorrow(c)
    \/ \E h \in Cells : Unwrap(h)
    \/ \E c \in Ctx : Release(c)
    \/ \E h \in Cells : Insert(h)
    \/ \E h \in Cells : Increment(h)
    \/ \E h \in Cells : HandlerExit(h)

\* ================================================================ claims
\* The contents of the slot after the first k replace calls, told from the
\* calls alone: the value of the k-th call if it is a load, None if it is a
\* claim.
SlotAfter(k) ==
    IF k = 0 THEN None
    ELSE IF hist[k].op = "load" THEN hist[k].val ELSE None

\* The positions of a context that lie inside critical_section::with.
InCS(c) == pc[c] \in {"borrow", "read", "write", "unborrow", "unwrap", "release"}

\* C1: Global::load(v) leaves Some(v) in the slot and returns what the slot
\* held just before: None for a slot never loaded or claimed since the last
\* load, otherwise the value of the most recent load.
C1_LoadReturnsPrevious ==
    /\ \A k \in 1..Len(hist) :
          hist[k].op = "load" =>
             /\ hist[k].old = SlotAfter(k - 1)
             /\ k = Len(hist) => global_inner = hist[k].val
    /\ load_ret.id # 0 =>
          \E k \in 1..Len(hist) :
             /\ hist[k].op = "load"
             /\ hist[k].val.id = load_ret.id
             /\ load_ret.ret = SlotAfter(k - 1)

\* C1 witness: a load returned the value of the load before it, and a later
\* load that followed a claim returned None.
C1_Witness ==
    /\ Len(hist) >= 4
    /\ hist[2].op = "load" /\ hist[2].old = hist[1].val /\ hist[2].old.some
    /\ hist[3].op = "take"
    /\ hist[4].op = "load" /\ load_ret.id = hist[4].val.id /\ ~load_ret.ret.some

\* C2: get_or_init_with on an empty cell, the Global holding Some(v), leaves
\* None in the Global, v in the cell, and returns a reference that reads v.
C2_ClaimMovesValue ==
    \A h \in Cells :
       path[h] = "init" =>
          \E k \in 2..Len(hist) :
             /\ hist[k].op = "take" /\ hist[k].ctx = h
             /\ hist[k - 1].op = "load"
             /\ claim_ret[h] = hist[k - 1].val
             /\ interrupt_inner[h] =
                   [hist[k - 1].val EXCEPT !.data = @ + incs[h]]
             /\ k = Len(hist) => global_inner = None

\* C2 witness: a handler has just returned from the claiming call.
C2_Witness ==
    \E h \in Cells :
       /\ pc[h] = "body" /\ path[h] = "init"
       /\ claim_ret[h].some /\ interrupt_inner[h] = claim_ret[h]
       /\ global_inner = None

\* C3: a get_or_init_with on a cell that holds a value returns the reference
\* to that value in one step that changes neither the cell nor the Global,
\* whatever was loaded in between; the slot is read at most once per cell.
C3_OwnedCallIsStable ==
    /\ [](\A h \in Cells :
            Cardinality({k \in 1..Len(hist) : hist[k].ctx = h}) <= 1)
    /\ [][\A h \in Cells :
            (pc[h] = "call" /\ interrupt_inner[h].some /\ pc'[h] # "call") =>
               /\ pc'[h] = "body"
               /\ claim_ret'[h] = interrupt_inner[h]
               /\ interrupt_inner' = interrupt_inner
               /\ global_inner' = global_inner
               /\ hist' = hist]_vars

\* C3 witness: a second call has returned while the Global holds another value.
C3_Witness ==
    \E h \in Cells :
       /\ pc[h] = "body" /\ path[h] = "owned"
       /\ global_inner.some /\ global_inner.id # interrupt_inner[h].id
       /\ claim_ret[h].id = interrupt_inner[h].id

\* C4: a claim that finds the slot empty panics inside get_or_init_with: the
\* call never returns a reference; and no other operation panics.
C4_EmptyClaimIsFatal ==
    /\ \A k \in 1..Len(hist) :
          (hist[k].op = "take" /\ ~SlotAfter(k - 1).some) =>
             /\ pc[hist[k].ctx] \in {"unborrow", "unwrap", "panicked"}
             /\ ~interrupt_inner[hist[k].ctx].some
             /\ ~claim_ret[hist[k].ctx].some
             /\ pc[hist[k].ctx] = "panicked" =>
                   fatal = [ctx |-> hist[k].ctx, why |-> "unwrap"]
    /\ fatal # NoPanic =>
          /\ fatal.why = "unwrap" /\ fatal.ctx \in Cells
          /\ Len(hist) > 0
          /\ hist[Len(hist)].ctx = fatal.ctx
          /\ ~SlotAfter(Len(hist) - 1).some
    /\ pc[Main] # "panicked"

\* C4 witness: a panic on a slot that was loaded and that another cell had
\* emptied.
C4_Witness ==
    /\ fatal # NoPanic
    /\ Len(hist) >= 3
    /\ hist[Len(hist) - 1].op = "take"

\* C5: a cell that holds a value never becomes empty again and never holds
\* another value.
C5_OwnedForever ==
    [][\A h \in Cells :
          interrupt_inner[h].some =>
             /\ interrupt_inner'[h].some
             /\ interrupt_inner'[h].id = interrupt_inner[h].id]_vars

\* C5 witness: a cell holds its value after later loads and later calls.
C5_Witness ==
    \E h \in Cells :
       /\ interrupt_inner[h].some /\ path[h] = "owned"
       /\ Len(hist) >= 4 /\ hist[2].ctx = h /\ global_inner.some

\* C6: with one cell, and a load returned before the first handler ran, no
\* get_or_init_with panics.
C6_DisciplinedNeverFatal ==
    (Cardinality(invoked) <= 1 /\ ~early) => fatal = NoPanic

\* C6 witness: one cell, loaded first, called again after later loads.
C6_Witness ==
    /\ invoked = {1} /\ ~early
    /\ path[1] = "owned" /\ pc[1] = "body"
    /\ loads = MaxLoads /\ fatal = NoPanic

\* C7: the read and the write of a replace are one step for every other
\* context: no two contexts are inside a critical section, nothing preempts
\* one; every value found in the slot was passed to an earlier load, no
\* value is found twice, and a claim finds what the last call left.
C7_ReplaceIsAtomic ==
    /\ \A a, b \in Ctx : a # b => ~(InCS(a) /\ InCS(b))
    /\ \A c \in Ctx : InCS(c) => (Top = c /\ cs)
    /\ \A k \in 1..Len(hist) :
          /\ hist[k].old = SlotAfter(k - 1)
          /\ hist[k].old.some =>
                \E j \in 1..(k - 1) :
                   hist[j].op = "load" /\ hist[j].val = hist[k].old
          /\ \A j \in 1..(k - 1) :
                hist[j].old.some => hist[j].old.id # hist[k].old.id

\* C7 witness: a handler claimed the value while the load that stored it had
\* not returned yet.
C7_Witness ==
    \E h \in Cells :
       /\ pc[Main] = "ret"
       /\ pc[h] = "body" /\ path[h] = "init"
       /\ claim_ret[h].id = arg.id

\* C8: increments made through the reference stay in the cell and are read
\* by later calls, the Global never shows them, and a claim that follows a
\* claim finds the Global empty.
C8_MutationsStayInCell ==
    /\ [](\A h \in Cells :
            interrupt_inner[h].some =>
               interrupt_inner[h].data = load_data + incs[h])
    /\ [](global_inner.some => global_inner.data = load_data)
    /\ [](\A k \in 2..Len(hist) :
            (hist[k].op = "take" /\ hist[k - 1].op = "take") =>
               /\ ~hist[k].old.some
               /\ ~interrupt_inner[hist[k].ctx].some)
    /\ [][\A h \in Cells :
            (pc[h] = "call" /\ pc'[h] = "body") =>
               claim_ret'[h].data = load_data + incs[h]]_vars

\* C8 witness: load(0), a claim, three increments, a later call that reads 3,
\* and a fresh cell whose first call found nothing.
C8_Witness ==
    /\ load_data = 0
    /\ incs[1] = 3 /\ path[1] = "owned" /\ claim_ret[1].data = 3
    /\ fatal = [ctx |-> 2, why |-> "unwrap"]
    /\ Len(hist) = 3

\* ------------------------------------------------------------ array cell
\* Largest N of a GroundedArrayCell<T, N>.
MaxN == 3
\* Largest size_of::<T>(); 0 is a zero-sized T.
MaxSize == 2
\* Largest value of T passed to initialize_all_copied (T not zero-sized).
MaxVal == 2
\* Address of the static cell; the addresses below it belong to other objects.
Base == 1

\* MaybeUninit::uninit(): an address that holds no valid value.
Uninit == -1

\* The only value of a zero-sized T.
Unit == 0

\* The modelled memory: the cell, and one more element's room after it.
MemTop == Base + (MaxN + 1) * MaxSize

Addrs == 0..MemTop

\* The values of T: one for a zero-sized T.
Vals == IF size = 0 THEN {Unit} ELSE 1..MaxVal

\* pointer::add(count): count elements, that is count * size_of::<T>() bytes.
PtrAdd(p, count) == p + count * size

\* GroundedArrayCell::as_mut_ptr: the address of the cell, cast to *mut T.
as_mut_ptr == Base

\* Mutant: the length is given in bytes.
get_ptr_len_bytes == <<as_mut_ptr, N * size>>

\* GroundedArrayCell::get_ptr_len.
get_ptr_len == <<as_mut_ptr, N>>

\* The addresses of the element a *mut T points to.
Span(p) == p..(p + size - 1)

\* A read of the T at pointer p: the value its addresses hold (Unit for a
\* zero-sized T, which occupies no address), Uninit when they hold none.
ReadAt(p) ==
    IF size = 0 THEN Unit
    ELSE IF \A a \in Span(p) : a \in Addrs /\ mem[a] = mem[p] /\ mem[a] # Uninit
           THEN mem[p]
           ELSE Uninit

\* The element at index i.
Elem(i) == ReadAt(PtrAdd(as_mut_ptr, i))

\* The address of the static GroundedCell<T>, above the modelled array memory.
CellBase == MemTop + 1

\* GroundedCell::get: the address of the cell, cast to *mut T.
GroundedCell_get == CellBase

\* No pointer or reference has been returned, or the last one is dead.
NoRef == [kind |-> "none", p |-> 0, n |-> 0, off |-> 0, len |-> 0]


\* A fresh GroundedArrayCell::uninit() of some length and element size.
ArrayInit ==
    /\ N \in 0..MaxN
    /\ size \in 0..MaxSize
    /\ mem = [a \in Addrs |-> Uninit]
    /\ apc = "idle"
    /\ aop = "none"
    /\ aval = Unit
    /\ ptr = Base
    /\ end_ptr = Base
    /\ f_calls = 0
    /\ wlog = <<>>
    /\ prior = <<>>
    /\ ref = NoRef
    /\ gcell = Uninit
    /\ shadow = [i \in 1..N |-> Uninit]
    /\ last_w = "none"
    /\ static \in {"cell", "array"}
    /\ first_base = <<>>
    /\ first_get = <<>>

\* Mutant: the end pointer is one element short.
LoopEnd_short(p, len) == PtrAdd(p, len - 1)

\* let end = ptr.add(len);
LoopEnd(p, len) == PtrAdd(p, len)

\* let (mut ptr, len) = self.get_ptr_len(); let end = ptr.add(len);
LoopEntry(op, v) ==
    /\ static = "array"
    /\ apc \in {"idle", "done"}
    /\ aop' = op
    /\ aval' = v
    /\ ptr' = get_ptr_len[1]
    /\ end_ptr' = LoopEnd(get_ptr_len[1], get_ptr_len[2])
    /\ f_calls' = 0
    /\ wlog' = <<>>
    /\ prior' = [i \in 1..N |-> Elem(i - 1)]
    /\ apc' = "loop"
    /\ ref' = NoRef
    /\ UNCHANGED <<N, size, mem, gcell, shadow, last_w, static, first_base, first_get>>

\* initialize_all_copied(val) is called.
InitializeAllCopied(v) ==
    /\ LoopEntry("copied", v)
    /\ UNCHANGED hvars

\* initialize_all_with(f) is called, f a producer counting 0, 1, 2, ..
InitializeAllWith ==
    /\ LoopEntry("with", Unit)
    /\ UNCHANGED hvars

\* The value of the k-th call of the counting producer.
Produce(k) == IF size = 0 THEN Unit ELSE k

\* while ptr != end { ptr.write(..); ptr = ptr.add(1); }: one iteration.  A
\* write outside the modelled memory ends the run.
LoopWrite ==
    /\ apc = "loop"
    /\ ptr # end_ptr
    /\ LET v == IF aop = "copied" THEN aval ELSE Produce(f_calls)
       IN  IF Span(ptr) \subseteq Addrs
             THEN /\ mem' = [a \in Addrs |-> IF a \in Span(ptr) THEN v ELSE mem[a]]
                  /\ apc' = "loop"
             ELSE /\ apc' = "crashed"
                  /\ UNCHANGED mem
    /\ f_calls' = IF aop = "with" THEN f_calls + 1 ELSE f_calls
    /\ wlog' = Append(wlog, ptr)
    /\ ptr' = PtrAdd(ptr, 1)
    /\ shadow' = [i \in 1..N |->
                    IF i = Len(wlog) + 1
                      THEN (IF aop = "copied" THEN aval ELSE Produce(f_calls))
                      ELSE shadow[i]]
    /\ last_w' = "loop"
    /\ UNCHANGED <<N, size, aop, aval, end_ptr, prior, ref, gcell, static, first_base, first_get>>
    /\ UNCHANGED hvars

\* ptr == end: the loop is left and the operation returns.
LoopExit ==
    /\ apc = "loop"
    /\ ptr = end_ptr
    /\ apc' = "done"
    /\ UNCHANGED <<N, size, mem, aop, aval, ptr, end_ptr, f_calls, wlog, prior>>
    /\ UNCHANGED <<ref, gcell, shadow, last_w, static, first_base, first_get>>
    /\ UNCHANGED hvars

\* No bulk operation is running; the locals of the last one are gone.
Returned(st) ==
    /\ static = st
    /\ apc \in {"idle", "done"}
    /\ apc' = "idle"
    /\ aop' = "none"
    /\ aval' = Unit
    /\ ptr' = Base
    /\ end_ptr' = Base
    /\ f_calls' = 0
    /\ wlog' = <<>>
    /\ prior' = <<>>

\* The first pointer to the array that was handed out.
NoteBase(p) == first_base' = IF first_base = <<>> THEN <<p>> ELSE first_base

\* let ptr = CELL.as_mut_ptr();
AsMutPtr ==
    /\ Returned("array")
    /\ ref' = [NoRef EXCEPT !.kind = "as_mut_ptr", !.p = as_mut_ptr]
    /\ NoteBase(as_mut_ptr)
    /\ UNCHANGED <<N, size, mem, gcell, shadow, last_w, static, first_get>>
    /\ UNCHANGED hvars

\* let (ptr, len) = CELL.get_ptr_len();
GetPtrLen ==
    /\ Returned("array")
    /\ ref' = [NoRef EXCEPT !.kind = "get_ptr_len",
                            !.p = get_ptr_len[1], !.n = get_ptr_len[2]]
    /\ NoteBase(get_ptr_len[1])
    /\ UNCHANGED <<N, size, mem, gcell, shadow, last_w, static, first_get>>
    /\ UNCHANGED hvars

\* let ptr = CELL.get(); on a GroundedCell<T>.
Get ==
    /\ Returned("cell")
    /\ ref' = [NoRef EXCEPT !.kind = "get", !.p = GroundedCell_get]
    /\ first_get' = IF first_get = <<>> THEN <<GroundedCell_get>> ELSE first_get
    /\ UNCHANGED <<N, size, mem, gcell, shadow, last_w, static, first_base>>
    /\ UNCHANGED hvars

\* The memory after a write of v to the T at pointer p.
MemWrite(p, v) == [a \in Addrs |-> IF a \in Span(p) THEN v ELSE mem[a]]

\* shadow after a write of v meant for the element at index i.
Noted(i, v) == [j \in 1..N |-> IF j = i + 1 THEN v ELSE shadow[j]]

\* ptr.add(offset).write(v), ptr the base pointer of the array, offset < N.
PtrWrite(off, v) ==
    /\ Returned("array")
    /\ ref.kind \in {"as_mut_ptr", "get_ptr_len"}
    /\ off \in 0..(N - 1)
    /\ mem' = MemWrite(PtrAdd(ref.p, off), v)
    /\ shadow' = Noted(off, v)
    /\ last_w' = "ptr"
    /\ UNCHANGED <<N, size, ref, gcell, static, first_base, first_get>>
    /\ UNCHANGED hvars

\* ptr.write(v), ptr the pointer GroundedCell::get returned.
CellWrite(v) ==
    /\ Returned("cell")
    /\ ref.kind = "get"
    /\ gcell' = v
    /\ UNCHANGED <<N, size, mem, ref, shadow, last_w, static, first_base, first_get>>
    /\ UNCHANGED hvars

\* Mutant: the element reference is made from the base pointer.
ElementPtr_base(off) == as_mut_ptr

\* get_element_unchecked / get_element_mut_unchecked: self.as_mut_ptr().add(offset)
ElementPtr(off) == PtrAdd(as_mut_ptr, off)

\* Mutant: the subslice starts at the base pointer.
SubslicePtr_base(off) == as_mut_ptr

\* get_subslice_unchecked / get_subslice_mut_unchecked: self.as_mut_ptr().add(offset)
SubslicePtr(off) == PtrAdd(as_mut_ptr, off)

\* Mutant: the end index is passed as the length.
SubsliceLen_end(off, len) == off + len

\* The length given to slice::from_raw_parts.
SubsliceLen(off, len) == len

\* The caller's obligation: offset < N and the element is initialized.
ElementReady(off) == off \in 0..(N - 1) /\ Elem(off) # Uninit

\* The caller's obligation: offset + len <= N and the elements are initialized.
RangeReady(off, len) ==
    /\ off \in 0..N
    /\ len \in 0..(N - off)
    /\ \A k \in 0..(len - 1) : Elem(off + k) # Uninit

\* A reference or slice is returned; nothing else changes.
Hand(kind, p, n, off, len) ==
    /\ Returned("array")
    /\ ref' = [kind |-> kind, p |-> p, n |-> n, off |-> off, len |-> len]
    /\ UNCHANGED <<N, size, mem, gcell, shadow, last_w, static, first_base, first_get>>
    /\ UNCHANGED hvars

\* &*self.as_mut_ptr().add(offset)
GetElementUnchecked(off) ==
    /\ ElementReady(off)
    /\ Hand("elem", ElementPtr(off), 1, off, 1)

\* &mut *self.as_mut_ptr().add(offset)
GetElementMutUnchecked(off) ==
    /\ ElementReady(off)
    /\ Hand("elem_mut", ElementPtr(off), 1, off, 1)

\* core::slice::from_raw_parts(self.as_mut_ptr().add(offset), len)
GetSubsliceUnchecked(off, len) ==
    /\ RangeReady(off, len)
    /\ Hand("slice", SubslicePtr(off), SubsliceLen(off, len), off, len)

\* core::slice::from_raw_parts_mut(self.as_mut_ptr().add(offset), len)
GetSubsliceMutUnchecked(off, len) ==
    /\ RangeReady(off, len)
    /\ Hand("slice_mut", SubslicePtr(off), SubsliceLen(off, len), off, len)

\* What the reference (k = 0) or element k of the slice reads.
RefRead(k) == ReadAt(PtrAdd(ref.p, k))

\* *r = v through the &mut T, or s[k] = v through the &mut [T], returned
\* last.  A write outside the modelled memory ends the run.
RefWrite(k, v) ==
    /\ Returned("array")
    /\ ref.kind \in {"elem_mut", "slice_mut"}
    /\ k \in 0..(ref.n - 1)
    /\ Span(PtrAdd(ref.p, k)) \subseteq Addrs
    /\ mem' = MemWrite(PtrAdd(ref.p, k), v)
    /\ shadow' = Noted(ref.off + k, v)
    /\ last_w' = IF ref.kind = "elem_mut" THEN "elem" ELSE "slice"
    /\ UNCHANGED <<N, size, ref, gcell, static, first_base, first_get>>
    /\ UNCHANGED hvars

ArrayNext ==
    \/ \E v \in Vals : InitializeAllCopied(v)
    \/ InitializeAllWith
    \/ LoopWrite
    \/ LoopExit
    \/ AsMutPtr
    \/ GetPtrLen
    \/ Get
    \/ \E off \in 0..MaxN, v \in Vals : PtrWrite(off, v)
    \/ \E v \in Vals : CellWrite(v)
    \/ \E off \in 0..MaxN : GetElementUnchecked(off)
    \/ \E off \in 0..MaxN : GetElementMutUnchecked(off)
    \/ \E off \in 0..MaxN, len \in 0..MaxN : GetSubsliceUnchecked(off, len)
    \/ \E off \in 0..MaxN, len \in 0..MaxN : GetSubsliceMutUnchecked(off, len)
    \/ \E k \in 0..(2 * MaxN), v \in Vals : RefWrite(k, v)

\* ---------------------------------------------------------- array claims
\* The addresses of element i of a [T; N] placed at Base.
Slot(i) == {Base + i * size + b : b \in 0..(size - 1)}

\* Element i holds the value v of T: every address of it does (a zero-sized
\* T has one value and no address).
Holds(i, v) == IF size = 0 THEN v = Unit ELSE \A a \in Slot(i) : mem[a] = v

\* The addresses of elements 0 .. N-1, in order.
ElementAddresses == [i \in 1..N |-> Base + (i - 1) * size]

\* C9: initialize_all_with calls the producer once per element, N calls, and
\* writes the i-th produced value to element i, in order, for every N and
\* every element size, zero included.
C9_ProducerOncePerElement ==
    (apc = "done" /\ aop = "with") =>
       /\ f_calls = N
       /\ wlog = ElementAddresses
       /\ \A i \in 0..(N - 1) : Holds(i, Produce(i))

\* C9 for a T that is not zero-sized: the same statement, which the code meets.
C9_SizedProducerOncePerElement ==
    (apc = "done" /\ aop = "with" /\ size > 0) =>
       /\ f_calls = N
       /\ wlog = ElementAddresses
       /\ \A i \in 0..(N - 1) : Holds(i, i)

\* C10: after initialize_all_copied(val) every element holds val, whatever
\* the cell held before; every write went to an element of the cell, and no
\* address outside the N elements was written.
C10_AllCopied ==
    (apc = "done" /\ aop = "copied") =>
       /\ \A i \in 0..(N - 1) : Holds(i, aval)
       /\ \A k \in 1..Len(wlog) : \E i \in 1..N : wlog[k] = ElementAddresses[i]
       /\ \A a \in Addrs \ UNION {Slot(i) : i \in 0..(N - 1)} : mem[a] = Uninit

\* C10 witness: a cell of several multi-byte elements, the first of which
\* held another value, has been filled.
C10_Witness ==
    /\ apc = "done" /\ aop = "copied"
    /\ N >= 2 /\ size >= 2
    /\ \A i \in 0..(N - 1) : Holds(i, aval)
    /\ prior[1] # aval /\ prior[1] # Uninit

\* What the element at index i must hold: the value written to it last.
Written(i) == shadow[i + 1]

\* C11: for every offset < N, a value written through the base pointer at
\* position offset (as_mut_ptr().add(offset) or get_ptr_len().0.add(offset))
\* is read back unchanged through the reference get_element_unchecked(offset)
\* or get_element_mut_unchecked(offset) returns.
C11_BaseWriteReadBack ==
    (/\ ref.kind \in {"elem", "elem_mut"}
     /\ last_w = "ptr"
     /\ Written(ref.off) # Uninit)
        => /\ RefRead(0) = Written(ref.off)
           /\ Holds(ref.off, Written(ref.off))

\* Only index 1 of a two-element array of two-byte elements was ever
\* written, through the base pointer, and a shared reference to it is held.
C11_Witness ==
    /\ ref.kind = "elem" /\ ref.off = 1
    /\ last_w = "ptr"
    /\ N = 2 /\ size = 2
    /\ shadow[1] = Uninit
    /\ shadow[2] = MaxVal
    /\ RefRead(0) = MaxVal

\* C12: for offset + len <= N and k < len, element k of
\* get_subslice_unchecked(offset, len) and of get_subslice_mut_unchecked is
\* the storage location of get_element_unchecked(offset + k): what is
\* written through one is read through the other, and the slice has exactly
\* len elements.
C12_SubsliceAliasesElements ==
    /\ ref.kind \in {"slice", "slice_mut"} =>
          /\ ref.n = ref.len
          /\ \A k \in 0..(ref.len - 1) :
                /\ PtrAdd(ref.p, k) = ElementPtr(ref.off + k)
                /\ PtrAdd(ref.p, k) = Base + (ref.off + k) * size
                /\ Written(ref.off + k) # Uninit
                      => RefRead(k) = Written(ref.off + k)
    /\ (/\ ref.kind \in {"elem", "elem_mut"}
        /\ last_w = "slice"
        /\ Written(ref.off) # Uninit)
           => RefRead(0) = Written(ref.off)

\* A slice over elements 1 and 2 of a three-element array is held after a
\* write through an element reference; element 0 was never written, so the
\* write went to an element of the slice.
C12_Witness ==
    /\ ref.kind = "slice" /\ ref.off = 1 /\ ref.len = 2
    /\ last_w = "elem"
    /\ N = 3 /\ size = 2
    /\ shadow = <<Uninit, 1, MaxVal>>
    /\ RefRead(0) = 1 /\ RefRead(1) = MaxVal

PtrKinds == {"as_mut_ptr", "get_ptr_len", "get"}

\* C13: GroundedCell::get, GroundedArrayCell::as_mut_ptr and get_ptr_len
\* return a non-null pointer, get_ptr_len returns the length N and the
\* pointer as_mut_ptr returns, every call on a cell returns the pointer the
\* first call returned whatever was read and written in between, and a call
\* changes no stored element.
C13_StablePointers ==
    /\ [](ref.kind \in PtrKinds => ref.p # 0)
    /\ [](ref.kind = "get_ptr_len" => ref.n = N)
    /\ [](ref.kind \in {"as_mut_ptr", "get_ptr_len"} => <<ref.p>> = first_base)
    /\ [](ref.kind = "get" => <<ref.p>> = first_get)
    /\ [][(AsMutPtr \/ GetPtrLen \/ Get \/ (ref' # ref /\ ref'.kind \in PtrKinds))
            => (mem' = mem /\ gcell' = gcell)]_vars

\* get_ptr_len has returned after an element, first written through the
\* pointer of an earlier call, was written again through a reference.
C13_Witness ==
    /\ ref.kind = "get_ptr_len" /\ ref.n = N
    /\ last_w = "elem"
    /\ N = 2 /\ size = 2
    /\ shadow = <<Uninit, MaxVal>>
    /\ Holds(1, MaxVal)
    /\ <<ref.p>> = first_base

\* The bytes of the elements offset .. offset + len - 1 of the reference or
\* slice returned last.
Accessed == UNION {Slot(i) : i \in ref.off..(ref.off + ref.len - 1)}

\* C16: a write through get_element_mut_unchecked(offset) changes only the
\* element at offset, a write through get_subslice_mut_unchecked(offset, len)
\* only elements in [offset, offset + len); every other element keeps its
\* value and its initialized or uninitialized status.
C16_WritesStayInRange ==
    [][(ref.kind \in {"elem_mut", "slice_mut"} /\ ref' = ref)
          => /\ \A a \in Addrs \ Accessed : mem'[a] = mem[a]
             /\ \A i \in 0..(N - 1) :
                   i \notin ref.off..(ref.off + ref.len - 1)
                      => shadow'[i + 1] = shadow[i + 1]
             /\ gcell' = gcell]_vars

\* Element 1 of three was written through a mutable slice of length one;
\* element 0 holds another value and element 2 is uninitialized.
C16_Witness ==
    /\ ref.kind = "slice_mut" /\ ref.off = 1 /\ ref.len = 1
    /\ last_w = "slice"
    /\ N = 3 /\ size = 2
    /\ shadow = <<1, MaxVal, Uninit>>
    /\ Holds(0, 1) /\ Holds(1, MaxVal) /\ Holds(2, Uninit)

\* ------------------------------------------------- handoff claims, part 2
\* Where the value with identity v is.  Inside an operation a value is also
\* in flight: in the argument of a load that has not stored it yet, or in
\* the result of a replace that has not been delivered yet.
InArg(v) ==
    /\ arg.some /\ arg.id = v
    /\ pc[Main] \in {"acquire", "borrow", "read", "write"}

InGlobal(v) ==
    /\ global_inner.some /\ global_inner.id = v
    /\ \A c \in Ctx : pc[c] # "write"

InFlight(c, v) ==
    /\ old[c].some /\ old[c].id = v
    /\ pc[c] \in {"write", "unborrow", "unwrap", "release", "ret", "insert"}

InCell(h, v) == interrupt_inner[h].some /\ interrupt_inner[h].id = v

\* v came back to the caller as the old value of a load that has returned.
HandedBack(v) ==
    \E k \in 1..Len(hist) :
        /\ hist[k].op = "load"
        /\ hist[k].old.some /\ hist[k].old.id = v
        /\ hist[k].val.id <= load_ret.id

Places(v) ==
    {<<"arg", Main>> : x \in {y \in {Main} : InArg(v)}}
      \cup {<<"global", Main>> : x \in {y \in {Main} : InGlobal(v)}}
      \cup {<<"flight", c>> : c \in {d \in Ctx : InFlight(d, v)}}
      \cup {<<"cell", h>> : h \in {d \in Cells : InCell(d, v)}}
      \cup {<<"back", Main>> : x \in {y \in {Main} : HandedBack(v)}}

\* C14: under every interleaving of loads and claims, with two Interrupt
\* cells claiming from the same Global, every value passed to Global::load
\* is in exactly one place: the Global, one Interrupt cell, or the caller
\* that got it back as the old value of a later load (or in flight inside
\* the operation that is moving it).  It is never in two cells, never in
\* the Global and in a cell, and never lost.
C14_ValueConservation ==
    \A v \in 1..loads : Cardinality(Places(v)) = 1

\* Three values were loaded: one came back from a later load and each of
\* the two cells has claimed one of the others.
C14_Witness ==
    /\ loads = 3
    /\ interrupt_inner[1].some /\ interrupt_inner[2].some
    /\ interrupt_inner[1].id # interrupt_inner[2].id
    /\ \E v \in 1..loads : HandedBack(v)
    /\ ~global_inner.some
    /\ pc = [c \in Ctx |-> "idle"]

\* C15: a get_or_init_with that ends in the fatal outcome (empty cell,
\* empty Global) changes no state: the replace found None and wrote None, no
\* step of the call after the read changes the Global or a cell, and at the
\* panic the Global holds None and the cell is empty.
C15_FatalChangesNothing ==
    /\ [](fatal.why = "unwrap" =>
            /\ global_inner = None
            /\ interrupt_inner[fatal.ctx] = None
            /\ hist # <<>>
            /\ hist[Len(hist)] = [op |-> "take", ctx |-> fatal.ctx,
                                  val |-> None, old |-> None])
    /\ [][\A h \in Cells :
            (pc[h] \in {"write", "unborrow", "unwrap"} /\ ~old[h].some)
               => /\ global_inner' = global_inner
                  /\ interrupt_inner' = interrupt_inner]_vars

\* Cell 1 has claimed the only value loaded; the claim of cell 2 panicked.
C15_Witness ==
    /\ fatal = [ctx |-> 2, why |-> "unwrap"]
    /\ loads = 1
    /\ interrupt_inner[1].some
    /\ interrupt_inner[2] = None
    /\ global_inner = None

\* One step of Global::load (c = Main) or of get_or_init_with (c a handler).
OpStep(c) ==
    \/ GetOrInsertWith(c)
    \/ Acquire(c)
    \/ BorrowMut(c)
    \/ ReplaceRead(c)
    \/ ReplaceWrite(c)
    \/ DropBorrow(c)
    \/ Unwrap(c)
    \/ Release(c)
    \/ (c = Main /\ LoadReturn)
    \/ Insert(c)

\* The processor executes the running context.
RunStep == \E c \in Ctx : OpStep(c)

\* c is inside Global::load or get_or_init_with.
InOp(c) ==
    pc[c] \in {"call", "acquire", "borrow", "read", "write", "unborrow",
               "unwrap", "release", "ret", "insert"}

\* How far an operation has come; an operation has at most ten steps.
Rank(l) ==
    CASE l = "call" -> 0
      [] l = "acquire" -> 1
      [] l = "borrow" -> 2
      [] l = "read" -> 3
      [] l = "write" -> 4
      [] l = "unborrow" -> 5
      [] l = "unwrap" -> 6
      [] l = "release" -> 7
      [] l = "ret" -> 8
      [] l = "insert" -> 8
      [] OTHER -> 9

\* No interrupt fires any more.
Quiet == \A h \in Cells : pc[h] # "call"

\* C17: every Global::load and every get_or_init_with returns or ends in the
\* fatal outcome after at most ten steps of its own, is never blocked while
\* it is the running context, and has released its critical section when it
\* returns; a critical section once entered is left, and unless interrupts
\* keep firing for ever a state is reached in which every operation that
\* was called has completed.
C17_OperationsComplete ==
    /\ [](cs => (fatal # NoPanic \/ \E c \in Ctx : InCS(c)))
    /\ [](fatal.why \in {"none", "unwrap"})
    /\ [](\A c \in Ctx : (Running(c) /\ InOp(c)) => ENABLED OpStep(c))
    /\ [][\A c \in Ctx : (InOp(c) /\ pc'[c] # pc[c])
                             => Rank(pc'[c]) > Rank(pc[c])]_vars
    /\ cs ~> (~cs \/ fatal # NoPanic)
    /\ (<>[]Quiet) =>
          ((\E c \in Ctx : InOp(c))
              ~> ((\A c \in Ctx : ~InOp(c)) \/ fatal # NoPanic))

\* Main is inside a load, preempted between its critical section and its
\* return by handler 1, itself preempted before its critical section by
\* handler 2, which is about to leave its own.
C17_Witness ==
    /\ stack = <<Main, 1, 2>>
    /\ pc[Main] = "ret" /\ pc[1] = "acquire" /\ pc[2] = "release"
    /\ cs
    /\ fatal = NoPanic

\* -------------------------------------------------------- specifications
\* The handoff family, the array cell left alone.
Init == HandoffInit /\ ArrayInit /\ N = 0 /\ size = 0 /\ static = "array"

Next == HandoffNext

Spec == Init /\ [][Next]_vars

\* The processor always executes the next step of the running context, and
\* a handler that has its value returns.
FairSpec ==
    /\ Spec
    /\ WF_vars(RunStep)
    /\ WF_vars(\E h \in Cells : HandlerExit(h))

\* The array cell, the handoff family left alone.
ArraySpecInit == ArrayInit /\ HandoffInit /\ load_data = 0

ArraySpec == ArraySpecInit /\ [][ArrayNext]_vars

====
